---- MODULE Spec2Model ----
(***************************************************************************)
(* Model of the PIMS enrichment microservice: the enrichment run           *)
(* (EnrichmentService.enrich_product), the collaborators it calls          *)
(* (SearchService.search, ScraperService.extract_content,                  *)
(* OpenAIService.synthesize_product_data) and the two endpoints            *)
(* (/enrich and /enrich/batch).                                            *)
(*                                                                         *)
(* Conventions.                                                            *)
(*  - Optional[T] is a sequence of length <= 1: None is <<>>, a present    *)
(*    value v is <<v>>.                                                    *)
(*  - A relevance_score is kept in tenths (the float 0.9 is 9): the code   *)
(*    computes 1.0 - position * 0.1 with an integer position, so tenths    *)
(*    are exact for the positions the top three hits can carry.            *)
(*  - Python strings are TLA+ strings; str.lower() is the operator Lower.  *)
(*  - Runs are numbered 1..Len(products); Python's 0-based index idx of    *)
(*    enumerate() is written idx0.                                         *)
(***************************************************************************)
EXTENDS Integers, Sequences, FiniteSets, TLC

\* ---------------------------------------------------------------- bounds
\* Longest raw result list a provider hands back to the /enrich endpoint.
MaxRaw == 6
\* Largest number of products in one batch request.
MaxBatch == 2
\* Longest raw result list of an observed /enrich call.
ObsMaxRaw == 3
\* Latest reading of the clock.
MaxClock == 2

\* ------------------------------------------------------ program constants
\* Settings.MAX_SEARCH_RESULTS (default).
MAX_SEARCH_RESULTS == 5
\* results_to_scrape = search_results[:3]
TopK == 3
\* HTTP status the DuckDuckGo HTML scraper accepts.
HTTP_OK == 200
\* Field(ge=0.0, le=1.0) of SourceReference.relevance_score, in tenths.
ScoreMin == 0
ScoreMax == 10

\* ---------------------------------------------------------------- helpers
None == <<>>
Some(v) == <<v>>
Min(a, b) == IF a < b THEN a ELSE b
SeqsUpTo(S, n) == UNION {[1..k -> S] : k \in 0..n}

\* str.lower() on the provider names the model draws.
Lower(s) ==
    CASE s = "NONE" -> "none"
      [] s = "DuckDuckGo" -> "duckduckgo"
      [] OTHER -> s

\* Python truthiness of an Optional[str].
Truthy(o) == o # None /\ o[1] # ""

\* Values of Settings.SEARCH_PROVIDER the model draws.
ProviderSettings ==
    {None, Some(""), Some("none"), Some("NONE"), Some("duckduckgo"),
     Some("DuckDuckGo"), Some("serpapi"), Some("googlesearch"), Some("bing")}

\* "Check if search is enabled" in enrich_product.
\* Mutant: the comparison with "none" is case-sensitive.
SearchEnabled_CaseSensitive(sp) == Truthy(sp) /\ sp[1] # "none"

SearchEnabled(sp) == Truthy(sp) /\ Lower(sp[1]) # "none"

\* SearchService.__init__: self.provider.
ServiceProvider(sp) == IF Truthy(sp) THEN Lower(sp[1]) ELSE "none"

\* --------------------------------------------------------------- schemas
SearchResult(t, u, src, pos) ==
    [title |-> t, url |-> u, source |-> src, position |-> pos]

\* SourceReference with its validated field; Valid says whether pydantic
\* accepts the value.
SourceReference(u, t, score) == [url |-> u, title |-> t, relevance_score |-> score]
SourceReferenceValid(score) == score >= ScoreMin /\ score <= ScoreMax

ProductContent(u, t) == [url |-> u, title |-> t]

RequiredFields == {"detailed_description", "seo_title", "seo_description"}
OptionalFields == {"features", "price_range"}

\* EnrichedProductData(**data): a required field takes the value of data,
\* a missing optional field takes its default.
EnrichedProductData(data) ==
    [detailed_description |-> "description",
     seo_title |-> "title",
     seo_description |-> "meta",
     features |-> IF "features" \in data THEN <<"feature">> ELSE <<>>,
     price_range |-> IF "price_range" \in data THEN Some("$1 - $2") ELSE None]
EnrichedProductDataValid(data) == RequiredFields \subseteq data

\* EnrichmentResponse with processing_time at its default 0.0.
EnrichmentResponse(succ, name, data, srcs, count, err) ==
    [success |-> succ, product_name |-> name, enriched_data |-> data,
     sources |-> srcs, processing_time |-> 0, search_results_count |-> count,
     cached |-> FALSE, error |-> err]

\* The keyword processing_time=t of the constructor.
WithProcessingTime(resp, t) == [resp EXCEPT !.processing_time = t]

\* ------------------------------------------------------- search strategies
\* What the web can hand a strategy: a page with its url and title.
Pages == {[url |-> "u1", title |-> "t1"], [url |-> "u2", title |-> "t2"]}
\* A .result element of the DuckDuckGo page: with a title anchor or without.
Elems == {Some(p) : p \in Pages} \cup {None}

\* _search_googlesearch: importOk is whether googlesearch imports, raw the
\* list the library returns, processed the number of loop iterations done
\* before an exception ends the loop (Len(raw) when none does).
_search_googlesearch(importOk, raw, processed) ==
    IF ~importOk THEN <<>>
    ELSE [k \in 1..Min(processed, Len(raw)) |->
            LET idx0 == k - 1
            IN  SearchResult(raw[k].title, raw[k].url, "google", idx0 + 1)]

\* The parse loop of _search_duckduckgo_html_sync from 0-based index idx0 on.
RECURSIVE DdgLoop(_, _, _, _)
DdgLoop(elems, idx0, processed, results) ==
    IF idx0 >= Len(elems) \/ idx0 >= processed THEN results
    ELSE IF idx0 >= MAX_SEARCH_RESULTS THEN results
    ELSE LET result == elems[idx0 + 1]
         IN  IF result # None
             THEN DdgLoop(elems, idx0 + 1, processed,
                          Append(results,
                                 SearchResult(result[1].title, result[1].url,
                                              "duckduckgo_html", idx0 + 1)))
             ELSE DdgLoop(elems, idx0 + 1, processed, results)

\* _search_duckduckgo_html_sync: non-200 returns [], an exception keeps
\* the results appended so far.
_search_duckduckgo_html_sync(status, elems, processed) ==
    IF status # HTTP_OK THEN <<>>
    ELSE DdgLoop(elems, 0, processed, <<>>)

\* _search_serpapi: placeholder.
_search_serpapi == <<>>

\* SearchService.search: dispatch on self.provider; an exception of the
\* strategy (env.raises) is caught and gives [].
search(provider, env) ==
    IF env.raises THEN <<>>
    ELSE IF provider = "duckduckgo"
         THEN _search_duckduckgo_html_sync(env.status, env.elems, env.processed)
    ELSE IF provider = "serpapi" THEN _search_serpapi
    ELSE IF provider = "googlesearch"
         THEN _search_googlesearch(env.importOk, env.raw, env.processed)
    ELSE _search_googlesearch(env.importOk, env.raw, env.processed)

\* Whether the search call met an internal failure: the strategy raised
\* into search(), googlesearch is not installed, the status is not 200, or
\* an exception ended the parse loop before its last iteration.
StrategyFailed(provider, env) ==
    \/ env.raises
    \/ /\ provider = "duckduckgo"
       /\ \/ env.status # HTTP_OK
          \/ env.processed < Min(Len(env.elems), MAX_SEARCH_RESULTS)
    \/ /\ provider \notin {"duckduckgo", "serpapi"}
       /\ \/ ~env.importOk
          \/ env.processed < Len(env.raw)

\* The pages of the .result elements that carry a title anchor.
PagesOf(elems) ==
    LET present == SelectSeq(elems, LAMBDA e : e # None)
    IN  [k \in 1..Len(present) |-> present[k][1]]

\* One environment of a search call: whether the strategy raises, whether
\* googlesearch imports, the HTTP status, the result elements (the
\* googlesearch library returns their pages), and the number of loop
\* iterations before an exception.
SearchEnv(r, io, st, el, pr) ==
    [raises |-> r, importOk |-> io, status |-> st, elems |-> el,
     raw |-> PagesOf(el), processed |-> pr]

\* The environments of one search call over the given result pages: each
\* failure once, and every page with every point of interruption.
SearchEnvs(elemSeqs) ==
    {SearchEnv(TRUE, TRUE, HTTP_OK, <<>>, 0),
     SearchEnv(FALSE, FALSE, 503, <<>>, 0)}
    \cup {SearchEnv(FALSE, TRUE, HTTP_OK, el, pr) :
              el \in elemSeqs, pr \in 0..MaxRaw}

\* ------------------------------------------------------------ synthesizer
\* What the LLM call can produce: a transport error, or a message whose
\* content is None, empty, text that is no JSON, or a JSON object with
\* the given keys.
LLMOutcomes ==
    {[kind |-> "error", keys |-> {}],
     [kind |-> "none", keys |-> {}],
     [kind |-> "empty", keys |-> {}],
     [kind |-> "text", keys |-> {}],
     [kind |-> "object", keys |-> {}],
     [kind |-> "object", keys |-> RequiredFields \ {"seo_title"}],
     [kind |-> "object", keys |-> RequiredFields],
     [kind |-> "object", keys |-> RequiredFields \cup OptionalFields]}

\* Mutant: a JSON object is accepted without its required fields.
synthesize_product_data_Lenient(llm) ==
    IF llm.kind = "error"
    THEN [ok |-> FALSE, value |-> "Connection error."]
    ELSE IF llm.kind \in {"none", "empty"}
    THEN [ok |-> FALSE, value |-> "Empty response from LLM"]
    ELSE IF llm.kind = "text"
    THEN [ok |-> FALSE, value |-> "LLM returned invalid JSON"]
    ELSE [ok |-> TRUE, value |-> EnrichedProductData(llm.keys)]

\* synthesize_product_data: [ok |-> TRUE, value |-> the record] when it
\* returns, [ok |-> FALSE, value |-> str(e)] when it raises e.
synthesize_product_data(llm) ==
    IF llm.kind = "error"
    THEN [ok |-> FALSE, value |-> "Connection error."]
    ELSE IF llm.kind \in {"none", "empty"}
    THEN [ok |-> FALSE, value |-> "Empty response from LLM"]
    ELSE IF llm.kind = "text"
    THEN [ok |-> FALSE, value |-> "LLM returned invalid JSON"]
    ELSE IF ~EnrichedProductDataValid(llm.keys)
    THEN [ok |-> FALSE, value |-> "validation error for EnrichedProductData"]
    ELSE [ok |-> TRUE, value |-> EnrichedProductData(llm.keys)]

\* -------------------------------------------------------------- extractor
\* What one fetch can meet: a transport or HTTP error, a non-HTML body,
\* an HTML page, or an exception that escapes extract_content's handler.
ExtractEnvs == {"fetch_error", "non_html", "html", "escapes"}

\* ScraperService.extract_content: the task's settled state, with the
\* value gather() puts in its result list (the exception object when the
\* call raised).  Every exception inside the try gives None; an HTML page
\* gives the parsed content.
extract_content(url, env) ==
    IF env = "escapes"
    THEN [state |-> "raised", value |-> Some([exception |-> "escaped"])]
    ELSE IF env = "html"
    THEN [state |-> "returned", value |-> Some(ProductContent(url, "page"))]
    ELSE [state |-> "returned", value |-> None]

PendingTask(url) == [url |-> url, state |-> "pending", value |-> None]

\* --------------------------------------------------------- enrichment run
\* relevance_score = 1.0 - (result.position * 0.1), in tenths.
\* Mutant: the position is not scaled by 0.1.
RelevanceScore_NoScale(position) == 10 - (position * 10)

RelevanceScore(position) == 10 - (position * 1)

\* results_to_scrape = search_results[:3]
results_to_scrape(hits) == SubSeq(hits, 1, Min(TopK, Len(hits)))

\* The sources the loop over results_to_scrape builds.
BuildSources(hits) ==
    [k \in 1..Len(results_to_scrape(hits)) |->
        SourceReference(hits[k].url, hits[k].title,
                        RelevanceScore(hits[k].position))]

\* Whether every SourceReference of the loop passes validation.
SourcesValid(hits) ==
    \A k \in 1..Len(results_to_scrape(hits)) :
        SourceReferenceValid(RelevanceScore(hits[k].position))

\* The scrape tasks the loop creates, one per selected hit.
BuildTasks(hits) ==
    [k \in 1..Len(results_to_scrape(hits)) |-> PendingTask(hits[k].url)]

\* valid_content = [c for c in scraped_content if c and not isinstance(c, Exception)]
\* Mutant: the filter keeps every truthy entry, exceptions included.
KeepContent_Truthy(task) == task.value # None

KeepContent(task) == task.value # None /\ task.state # "raised"
FilterContent(tasks) ==
    LET kept == SelectSeq(tasks, KeepContent)
    IN  [k \in 1..Len(kept) |-> kept[k].value[1]]

\* Mutant: the failure response leaves processing_time at its default.
FailureResponse_NoTime(name, e, elapsed) ==
    EnrichmentResponse(FALSE, name, None, <<>>, 0,
                       Some("Internal processing error: " \o e))

\* Mutant: the failure response is built without its error text.
FailureResponse_NoError(name, e, elapsed) ==
    WithProcessingTime(EnrichmentResponse(FALSE, name, None, <<>>, 0, None),
                       elapsed)

\* The except branch of enrich_product; elapsed is time.time() - start_time.
FailureResponse(name, e, elapsed) ==
    WithProcessingTime(
        EnrichmentResponse(FALSE, name, None, <<>>, 0,
                           Some("Internal processing error: " \o e)),
        elapsed)

\* Reading the local variable sources before any assignment to it.
UnboundSources ==
    "cannot access local variable 'sources' where it is not associated with a value"

\* Mutant: search_results_count counts the sources instead of the hits.
RespondAfterSynthesis_CountsSources(name, syn, srcs, hits, elapsed) ==
    IF ~syn.ok THEN FailureResponse(name, syn.value, elapsed)
    ELSE IF srcs = None THEN FailureResponse(name, UnboundSources, elapsed)
    ELSE WithProcessingTime(
             EnrichmentResponse(TRUE, name, Some(syn.value), srcs[1],
                                Len(srcs[1]), None),
             elapsed)

\* Steps 4 and 5 of enrich_product: the synthesizer's result syn, then
\* the response; srcs is None while the local variable sources is unbound,
\* elapsed is time.time() - start_time.
RespondAfterSynthesis(name, syn, srcs, hits, elapsed) ==
    IF ~syn.ok THEN FailureResponse(name, syn.value, elapsed)
    ELSE IF srcs = None THEN FailureResponse(name, UnboundSources, elapsed)
    ELSE WithProcessingTime(
             EnrichmentResponse(TRUE, name, Some(syn.value), srcs[1],
                                Len(hits), None),
             elapsed)

\* Exceptions that can leave enrich_product (raised outside its try).
EscapingErrors == {"boom", ""}

\* ------------------------------------------------------------------ state
VARIABLES
    SEARCH_PROVIDER,  \* settings.SEARCH_PROVIDER
    endpoint,         \* "enrich" or "batch"
    products,         \* the requests of the call, in input order
    handler,          \* the endpoint handler: received, awaiting, returned, http500
    run,              \* run[i]: the locals of the enrich_product call for products[i],
                      \* with what the LLM answered (llm) and the call counts
    completed,        \* the runs in the order they finished
    reply,            \* what the endpoint returned (None before)
    now,              \* the reading of time.time()
    observe           \* whether this behaviour is an observed /enrich call: the
                      \* clock runs, and the run records the order in which its
                      \* extractions settle and whether its search failed

vars == <<SEARCH_PROVIDER, endpoint, products, handler, run, completed, reply,
          now, observe>>

ProductNames == {"p1", "p2"}
EnrichmentRequest(name) == [product_name |-> name]

Runs == 1..Len(products)

\* The locals of a run that has not started.
NewRun ==
    [pc |-> "created", search_results |-> <<>>, sources |-> None,
     scrape_tasks |-> <<>>, valid_content |-> <<>>,
     search_calls |-> 0, synth_calls |-> 0, llm |-> None, synth |-> None,
     result |-> None, raised |-> None,
     start_time |-> 0, returned_at |-> 0,
     settled |-> <<>>, search_failed |-> None]

\* The inputs the collaborators of a run are drawn from.  A /enrich call
\* draws every input; the runs of a batch draw a representative of each
\* outcome, which keeps the product of the concurrent runs small.
BatchProviderSettings == {None, Some("googlesearch")}
BatchElemSeqs == {<<>>, <<Some([url |-> "u1", title |-> "t1"])>>}
BatchExtractEnvs == {"fetch_error", "html"}
BatchLLMOutcomes ==
    {[kind |-> "text", keys |-> {}], [kind |-> "object", keys |-> RequiredFields]}
BatchEscapingErrors == {"boom"}

\* An observed /enrich call draws shorter result lists and one LLM answer
\* of each kind of outcome.
ObsProviderSettings ==
    {None, Some("duckduckgo"), Some("googlesearch"), Some("bing")}
ObsLLMOutcomes ==
    {[kind |-> "error", keys |-> {}], [kind |-> "object", keys |-> RequiredFields]}

ElemSeqsDrawn ==
    IF observe THEN SeqsUpTo(Elems, ObsMaxRaw)
    ELSE IF endpoint = "enrich" THEN SeqsUpTo(Elems, MaxRaw) ELSE BatchElemSeqs
ExtractEnvsDrawn == IF endpoint = "enrich" THEN ExtractEnvs ELSE BatchExtractEnvs
LLMOutcomesDrawn ==
    IF observe THEN ObsLLMOutcomes
    ELSE IF endpoint = "enrich" THEN LLMOutcomes ELSE BatchLLMOutcomes
EscapingErrorsDrawn == IF endpoint = "enrich" THEN EscapingErrors ELSE BatchEscapingErrors

Init ==
    /\ endpoint \in {"enrich", "batch"}
    /\ SEARCH_PROVIDER \in
         IF endpoint = "enrich" THEN ProviderSettings ELSE BatchProviderSettings
    /\ products \in
         IF endpoint = "enrich"
         THEN {<<EnrichmentRequest(n)>> : n \in ProductNames}
         ELSE {[k \in 1..Len(ns) |-> EnrichmentRequest(ns[k])] :
                   ns \in SeqsUpTo(ProductNames, MaxBatch)}
    /\ handler = "received"
    /\ run = [i \in 1..Len(products) |-> NewRun]
    /\ completed = <<>>
    /\ reply = None
    /\ now = 0
    /\ observe = FALSE

\* An observed /enrich call.
ObsInit ==
    /\ endpoint = "enrich"
    /\ SEARCH_PROVIDER \in ObsProviderSettings
    /\ products = <<EnrichmentRequest("p1")>>
    /\ handler = "received"
    /\ run = [i \in 1..Len(products) |-> NewRun]
    /\ completed = <<>>
    /\ reply = None
    /\ now = 0
    /\ observe = TRUE

\* The handler calls enrich_product for its request (/enrich), or creates
\* one coroutine per product and gathers them (/enrich/batch).
Dispatch ==
    /\ handler = "received"
    /\ handler' = "awaiting"
    /\ run' = [i \in Runs |-> [run[i] EXCEPT !.pc = "start"]]
    /\ UNCHANGED <<SEARCH_PROVIDER, endpoint, products, completed, reply,
                   now, observe>>

Finish(i, r) ==
    /\ run' = [run EXCEPT ![i] = r]
    /\ completed' = IF r.pc = "done" THEN Append(completed, i) ELSE completed
    /\ UNCHANGED <<SEARCH_PROVIDER, endpoint, products, handler, reply,
                   now, observe>>

\* enrich_product up to the search call: start_time and the provider
\* check.
RunStart(i) ==
    /\ run[i].pc = "start"
    /\ Finish(i, [run[i] EXCEPT
                    !.start_time = now,
                    !.pc = IF SearchEnabled(SEARCH_PROVIDER) THEN "search"
                           ELSE "synth"])

\* An exception leaves enrich_product: one raised before its try is
\* entered (the logger call), which no handler of the run catches.  The
\* /enrich handler turns it into HTTP 500, the batch into a failure entry.
RunRaises(i) ==
    /\ run[i].pc = "start"
    /\ \E e \in EscapingErrorsDrawn :
         Finish(i, [run[i] EXCEPT !.pc = "done", !.raised = Some(e)])

\* search_results = await search_service.search(query), then the loop
\* that builds scrape_tasks and sources.
RunSearch(i) ==
    /\ run[i].pc = "search"
    /\ \E env \in SearchEnvs(ElemSeqsDrawn) :
         LET hits == search(ServiceProvider(SEARCH_PROVIDER), env)
             failed == StrategyFailed(ServiceProvider(SEARCH_PROVIDER), env)
             r == [run[i] EXCEPT !.search_results = hits,
                                 !.search_calls = @ + 1,
                                 !.search_failed =
                                     IF observe THEN Some(failed) ELSE @]
             name == products[i].product_name
         IN  IF hits = <<>>
             THEN Finish(i, [r EXCEPT !.pc = "synth"])
             ELSE IF ~SourcesValid(hits)
             THEN Finish(i, [r EXCEPT
                    !.pc = "done",
                    !.returned_at = now,
                    !.result = Some(FailureResponse(name,
                                  "validation error for SourceReference",
                                  now - run[i].start_time))])
             ELSE Finish(i, [r EXCEPT !.pc = "scrape",
                                      !.sources = Some(BuildSources(hits)),
                                      !.scrape_tasks = BuildTasks(hits)])

\* One of the gathered extract_content calls settles.
RunExtract(i, k) ==
    /\ run[i].pc = "scrape"
    /\ k \in 1..Len(run[i].scrape_tasks)
    /\ run[i].scrape_tasks[k].state = "pending"
    /\ \E env \in ExtractEnvsDrawn :
         LET t == run[i].scrape_tasks[k]
             done == extract_content(t.url, env)
         IN  Finish(i, [run[i] EXCEPT
                 !.settled = IF observe THEN Append(@, k) ELSE @,
                 !.scrape_tasks[k] = [url |-> t.url, state |-> done.state,
                                      value |-> done.value]])

\* asyncio.gather(*scrape_tasks, return_exceptions=True) returns once every
\* task has settled; then the filter.
\* Mutant: the results come in the order the tasks settled.
RunGather_CompletionOrder(i) ==
    /\ run[i].pc = "scrape"
    /\ \A k \in 1..Len(run[i].scrape_tasks) :
           run[i].scrape_tasks[k].state # "pending"
    /\ Finish(i, [run[i] EXCEPT
                    !.pc = "synth",
                    !.valid_content =
                        FilterContent([j \in 1..Len(run[i].settled) |->
                            run[i].scrape_tasks[run[i].settled[j]]])])

\* Mutant: gather returns as soon as one task has settled.
RunGather_FirstSettled(i) ==
    /\ run[i].pc = "scrape"
    /\ \E k \in 1..Len(run[i].scrape_tasks) :
           run[i].scrape_tasks[k].state # "pending"
    /\ Finish(i, [run[i] EXCEPT
                    !.pc = "synth",
                    !.valid_content = FilterContent(run[i].scrape_tasks)])

RunGather(i) ==
    /\ run[i].pc = "scrape"
    /\ \A k \in 1..Len(run[i].scrape_tasks) :
           run[i].scrape_tasks[k].state # "pending"
    /\ Finish(i, [run[i] EXCEPT
                    !.pc = "synth",
                    !.valid_content = FilterContent(run[i].scrape_tasks)])

\* await openai_service.synthesize_product_data(...), then the response.
RunSynthesize(i) ==
    /\ run[i].pc = "synth"
    /\ \E llm \in LLMOutcomesDrawn :
         LET syn == synthesize_product_data(llm)
         IN  Finish(i, [run[i] EXCEPT
                 !.pc = "done",
                 !.synth_calls = @ + 1,
                 !.llm = Some(llm),
                 !.synth = Some(syn),
                 !.returned_at = now,
                 !.result = Some(RespondAfterSynthesis(
                                products[i].product_name, syn,
                                run[i].sources, run[i].search_results,
                                now - run[i].start_time))])

AllDone == \A i \in Runs : run[i].pc = "done"

\* /enrich: return the run's response; an exception becomes HTTP 500.
EnrichReturn ==
    /\ endpoint = "enrich"
    /\ handler = "awaiting"
    /\ AllDone
    /\ IF run[1].raised # None
       THEN handler' = "http500" /\ reply' = None
       ELSE handler' = "returned" /\ reply' = run[1].result
    /\ UNCHANGED <<SEARCH_PROVIDER, endpoint, products, run, completed,
                   now, observe>>

\* Mutant: the entries come in the order the runs finished.
gather_ByCompletion(rs, order) ==
    [k \in 1..Len(rs) |->
        [raised |-> rs[order[k]].raised, result |-> rs[order[k]].result]]

\* asyncio.gather(*tasks, return_exceptions=True): one entry per awaitable,
\* in the order of the awaitables.
gather(rs, order) == [i \in 1..Len(rs) |-> [raised |-> rs[i].raised, result |-> rs[i].result]]

\* Mutant: a failure entry takes the name of the first product.
Normalize_FirstName(results, prods) ==
    [i \in 1..Len(results) |->
        IF results[i].raised # None
        THEN EnrichmentResponse(FALSE, prods[1].product_name, None, <<>>, 0,
                                Some(results[i].raised[1]))
        ELSE results[i].result[1]]

\* Mutant: a run that raised is logged and gets no entry.
Normalize_SkipsRaised(results, prods) ==
    LET kept == SelectSeq(results, LAMBDA r : r.raised = None)
    IN  [i \in 1..Len(kept) |-> kept[i].result[1]]

\* The normalisation loop of enrich_products_batch.
Normalize(results, prods) ==
    [i \in 1..Len(results) |->
        IF results[i].raised # None
        THEN EnrichmentResponse(FALSE, prods[i].product_name, None, <<>>, 0,
                                Some(results[i].raised[1]))
        ELSE results[i].result[1]]

BatchEnrichmentResponse(normalized) ==
    LET total == Len(normalized)
        succeeded == Cardinality({i \in 1..Len(normalized) : normalized[i].success})
        failed == total - succeeded
    IN  [results |-> normalized, total |-> total, succeeded |-> succeeded,
         failed |-> failed]

\* /enrich/batch: after the gather, normalise and count.
BatchReturn ==
    /\ endpoint = "batch"
    /\ handler = "awaiting"
    /\ AllDone
    /\ handler' = "returned"
    /\ reply' = Some(BatchEnrichmentResponse(
                        Normalize(gather(run, completed), products)))
    /\ UNCHANGED <<SEARCH_PROVIDER, endpoint, products, run, completed,
                   now, observe>>

Next ==
    \/ Dispatch
    \/ \E i \in Runs : RunStart(i)
    \/ \E i \in Runs : RunRaises(i)
    \/ \E i \in Runs : RunSearch(i)
    \/ \E i \in Runs, k \in 1..TopK : RunExtract(i, k)
    \/ \E i \in Runs : RunGather(i)
    \/ \E i \in Runs : RunSynthesize(i)
    \/ EnrichReturn
    \/ BatchReturn

Spec == Init /\ [][Next]_vars

\* time.time() moves on.
Tick ==
    /\ now < MaxClock
    /\ now' = now + 1
    /\ UNCHANGED <<SEARCH_PROVIDER, endpoint, products, handler, run,
                   completed, reply, observe>>

\* An observed /enrich call: the steps of the handler and of its run, and
\* the clock.
ObsNext ==
    \/ Dispatch
    \/ \E i \in Runs : RunStart(i)
    \/ \E i \in Runs : RunRaises(i)
    \/ \E i \in Runs : RunSearch(i)
    \/ \E i \in Runs, k \in 1..TopK : RunExtract(i, k)
    \/ \E i \in Runs : RunGather(i)
    \/ \E i \in Runs : RunSynthesize(i)
    \/ EnrichReturn
    \/ Tick

ObsSpec == ObsInit /\ [][ObsNext]_vars

\* ----------------------------------------------------------------- claims
\* The run for products[i] has returned a response.
Returned(i) == run[i].pc = "done" /\ run[i].result # None
Response(i) == run[i].result[1]
\* The synthesizer call of run i has returned a valid record.
SynthesisOk(i) == run[i].synth # None /\ run[i].synth[1].ok
\* SEARCH_PROVIDER is unset, empty or 'none'.
NoProviderConfigured == SEARCH_PROVIDER \in {None, Some(""), Some("none")}
\* The scores of a list of sources.
Scores(srcs) == [k \in 1..Len(srcs) |-> srcs[k].relevance_score]

\* C1: with no search provider configured and a synthesizer call that
\* returned a valid record, the run's response has success=true,
\* sources=[], search_results_count=0 and enriched_data present.
C1_NoProviderSucceeds ==
    \A i \in Runs :
        (NoProviderConfigured /\ SynthesisOk(i)) =>
            /\ Returned(i)
            /\ Response(i).success
            /\ Response(i).sources = <<>>
            /\ Response(i).search_results_count = 0
            /\ Response(i).enriched_data # None

\* C2: with a provider configured and a search that returned zero hits,
\* the synthesizer is still invoked, with zero content records, and when
\* it succeeds the response has success=true, enriched_data, empty
\* sources and search_results_count=0.
C2_ZeroHitsDegrades ==
    \A i \in Runs :
        (/\ ~NoProviderConfigured
         /\ run[i].pc = "done"
         /\ run[i].search_calls = 1
         /\ run[i].search_results = <<>>) =>
            /\ run[i].synth_calls = 1
            /\ run[i].valid_content = <<>>
            /\ SynthesisOk(i) =>
                  /\ Returned(i)
                  /\ Response(i).success
                  /\ Response(i).enriched_data # None
                  /\ Response(i).sources = <<>>
                  /\ Response(i).search_results_count = 0

\* C3: a response has success=false only if the synthesizer call raised,
\* and success=true whenever the synthesizer returned a valid record.
C3_OnlySynthesisTerminal ==
    \A i \in Runs :
        Returned(i) =>
            /\ ~Response(i).success => (run[i].synth # None /\ ~run[i].synth[1].ok)
            /\ SynthesisOk(i) => Response(i).success

\* C4: for search hits with ranks 1, 2, 3 the sources of the response
\* carry the relevance scores 1.0, 0.9, 0.8 in that order (in tenths:
\* 10, 9, 8), i.e. 1.0 - 0.1 * (rank - 1).
C4_RelevanceFromRank ==
    \A i \in Runs :
        (/\ Returned(i)
         /\ Response(i).success
         /\ Len(run[i].search_results) >= 3
         /\ \A k \in 1..3 : run[i].search_results[k].position = k) =>
            Scores(Response(i).sources) = <<10, 9, 8>>

\* The LLM answer is one the synthesizer must reject: the call failed, the
\* content is empty, is no JSON, or lacks a required field.
SynthesizerFails(llm) ==
    \/ llm.kind \in {"error", "none", "empty", "text"}
    \/ llm.kind = "object" /\ ~(RequiredFields \subseteq llm.keys)

\* C5: when the synthesizer fails, the run ends with success=false, a
\* non-empty error string and no enriched_data, and the synthesizer was
\* invoked exactly once in that run.
C5_SynthesisFailureTerminal ==
    \A i \in Runs :
        /\ run[i].synth_calls <= 1
        /\ (run[i].llm # None /\ SynthesizerFails(run[i].llm[1])) =>
              /\ Returned(i)
              /\ ~Response(i).success
              /\ Response(i).error # None
              /\ Response(i).error[1] # ""
              /\ Response(i).enriched_data = None
              /\ run[i].synth_calls = 1

\* A run whose LLM answer lacked a required field has ended.
C5_Witness ==
    \E i \in Runs :
        /\ Returned(i)
        /\ run[i].llm # None
        /\ run[i].llm[1].kind = "object"
        /\ run[i].llm[1].keys = RequiredFields \ {"seo_title"}
        /\ run[i].valid_content # <<>>

\* A response is well formed for the request named name.
WellFormed(resp, name) ==
    /\ (resp.enriched_data # None) # (resp.error # None)
    /\ (resp.enriched_data # None) <=> resp.success
    /\ resp.product_name = name

BatchReplied == endpoint = "batch" /\ reply # None

\* C6: every EnrichmentResponse of a run or of the batch coordinator has
\* exactly one of enriched_data and error, has enriched_data iff
\* success=true, and carries the product_name of its request.
C6_ResponseShape ==
    /\ \A i \in Runs :
          Returned(i) => WellFormed(Response(i), products[i].product_name)
    /\ (endpoint = "enrich" /\ reply # None) =>
          WellFormed(reply[1], products[1].product_name)
    /\ BatchReplied =>
          /\ Len(reply[1].results) = Len(products)
          /\ \A i \in Runs :
                WellFormed(reply[1].results[i], products[i].product_name)

\* A batch has replied with a failure entry built for a run that raised
\* and a success response of a run.
C6_Witness ==
    /\ BatchReplied
    /\ \E i, j \in Runs :
          /\ run[i].raised # None
          /\ reply[1].results[i].error # None
          /\ Returned(j)
          /\ reply[1].results[j].enriched_data # None

\* The extraction task has settled without a content record: it returned
\* absent or it raised.
NoContent(task) ==
    \/ task.state = "raised"
    \/ task.state = "returned" /\ task.value = None

\* C7: when the search returned at least one hit and every launched
\* extraction returned absent or raised, the run does not raise, the
\* synthesizer is invoked with zero content records, and when synthesis
\* succeeds the response has success=true, enriched_data present and
\* search_results_count > 0.
C7_AllExtractionsFail ==
    \A i \in Runs :
        (/\ run[i].search_results # <<>>
         /\ run[i].pc \in {"synth", "done"}
         /\ \A k \in 1..Len(run[i].scrape_tasks) : NoContent(run[i].scrape_tasks[k])) =>
            /\ run[i].valid_content = <<>>
            /\ run[i].raised = None
            /\ run[i].pc = "done" =>
                  /\ run[i].synth_calls = 1
                  /\ Returned(i)
                  /\ SynthesisOk(i) =>
                        /\ Response(i).success
                        /\ Response(i).enriched_data # None
                        /\ Response(i).search_results_count > 0

\* A run with three launched extractions, of which one raised and two
\* returned absent, has answered with success.
C7_Witness ==
    \E i \in Runs :
        /\ Returned(i)
        /\ Len(run[i].scrape_tasks) = 3
        /\ run[i].scrape_tasks[1].state = "raised"
        /\ \A k \in 2..3 : run[i].scrape_tasks[k].state = "returned"
                           /\ run[i].scrape_tasks[k].value = None
        /\ Response(i).success

\* C8: in a batch, every run that returned is represented by the response
\* it produced, whatever happened to the other runs, and a run that raised
\* is represented by a success=false entry with its request's product_name
\* and the stringified error; the batch itself does not fail.
C8_BatchIsolation ==
    /\ endpoint = "batch" => handler # "http500"
    /\ BatchReplied =>
          \A i \in Runs :
              IF run[i].raised = None
              THEN reply[1].results[i] = Response(i)
              ELSE /\ ~reply[1].results[i].success
                   /\ reply[1].results[i].product_name = products[i].product_name
                   /\ reply[1].results[i].error = run[i].raised

\* A batch has replied in which the second run raised, the first run
\* succeeded, and the two requests carry different names.
C8_Witness ==
    /\ BatchReplied
    /\ Len(products) >= 2
    /\ products[1].product_name # products[2].product_name
    /\ run[2].raised # None
    /\ Returned(1)
    /\ reply[1].results[1].success

\* C9: the batch response has succeeded + failed = total = len(results) =
\* n, succeeded counts exactly the entries with success=true, and it is
\* assembled only after all n runs have completed.
C9_BatchCounts ==
    BatchReplied =>
        LET b == reply[1]
        IN  /\ b.succeeded + b.failed = b.total
            /\ b.total = Len(b.results)
            /\ Len(b.results) = Len(products)
            /\ b.succeeded = Cardinality({i \in 1..Len(b.results) : b.results[i].success})
            /\ \A i \in Runs : run[i].pc = "done"
            /\ Len(completed) = Len(products)

\* A batch of two has replied with one success and one entry of a run
\* that raised.
C9_Witness ==
    /\ BatchReplied
    /\ Len(products) = 2
    /\ reply[1].succeeded = 1
    /\ reply[1].failed = 1
    /\ \E i \in Runs : run[i].raised # None

\* The empty batch has replied.
C9_WitnessEmpty == BatchReplied /\ Len(products) = 0 /\ reply[1].total = 0

\* C10: whatever the order in which the runs complete, results[i] carries
\* the product_name of requests[i].
C10_InputOrder ==
    BatchReplied =>
        \A i \in 1..Len(reply[1].results) :
            reply[1].results[i].product_name = products[i].product_name

\* A batch whose second run finished before its first has replied, the two
\* requests carrying different names.
C10_Witness ==
    /\ BatchReplied
    /\ Len(products) >= 2
    /\ products[1].product_name # products[2].product_name
    /\ completed[1] = 2

\* The provider setting is unset, empty, or "none" in some letter case.
ProviderOff ==
    \/ SEARCH_PROVIDER = None
    \/ SEARCH_PROVIDER \in {Some(""), Some("none"), Some("NONE")}

\* C11: when no search provider is configured (unset, empty, or "none" in
\* any letter case), a run never calls the search service and never
\* launches an extraction; it goes from the provider check directly to the
\* synthesizer, which it calls with zero content records.
C11_DisabledSkipsSearch ==
    \A i \in Runs :
        ProviderOff =>
            /\ run[i].search_calls = 0
            /\ run[i].scrape_tasks = <<>>
            /\ run[i].pc \notin {"search", "scrape"}
            /\ run[i].valid_content = <<>>
            /\ (run[i].pc = "done" /\ run[i].raised = None
                   => run[i].synth_calls = 1)

\* A run with the provider set to "NONE" has called the synthesizer.
C11_Witness ==
    \E i \in Runs :
        /\ SEARCH_PROVIDER = Some("NONE")
        /\ run[i].pc = "done"
        /\ run[i].synth_calls = 1
        /\ run[i].search_calls = 0

\* The error text of a run that failed while it built its sources.
SourceValidationError ==
    Some("Internal processing error: validation error for SourceReference")

C15_ScrapeFanOut ==
    \A i \in Runs :
        LET n == Len(run[i].search_results)
            tasks == run[i].scrape_tasks
        IN  /\ run[i].pc = "scrape" => n >= 1
            /\ n >= 1 /\ run[i].pc \in {"scrape", "synth", "done"} =>
                  /\ Len(tasks) = (IF n < 3 THEN n ELSE 3)
                  /\ \A k \in 1..Len(tasks) :
                         tasks[k].url = run[i].search_results[k].url
                  /\ run[i].synth_calls <= 1
                  /\ run[i].pc \in {"synth", "done"} =>
                         \A k \in 1..Len(tasks) :
                             tasks[k].state \in {"returned", "raised"}

\* A run with four hits, the first two with the same url, launched three
\* extractions; the first raised, the second returned a record, and the
\* synthesizer has been called.
C15_Witness ==
    \E i \in Runs :
        /\ Len(run[i].search_results) = 4
        /\ run[i].search_results[1].url = run[i].search_results[2].url
        /\ Len(run[i].scrape_tasks) = 3
        /\ run[i].scrape_tasks[1].state = "raised"
        /\ run[i].scrape_tasks[2].state = "returned"
        /\ run[i].scrape_tasks[2].value # None
        /\ run[i].synth_calls = 1

\* C17: in a success response of a run whose search returned n >= 1 hits,
\* sources has exactly min(3, n) entries, the k-th with the url and title
\* of the k-th hit and a relevance computed from that hit's position alone,
\* whatever the outcome of its extraction; search_results_count is n.
C17_SourcesFromHits ==
    \A i \in Runs :
        LET n == Len(run[i].search_results)
        IN  Returned(i) /\ Response(i).success /\ n >= 1 =>
              /\ Len(Response(i).sources) = (IF n < 3 THEN n ELSE 3)
              /\ \A k \in 1..Len(Response(i).sources) :
                     /\ Response(i).sources[k].url = run[i].search_results[k].url
                     /\ Response(i).sources[k].title = run[i].search_results[k].title
                     /\ Response(i).sources[k].relevance_score =
                            10 - run[i].search_results[k].position
              /\ Response(i).search_results_count = n

\* A success response of a run with four hits: three sources, although
\* the first extraction raised and the second returned nothing.
C17_Witness ==
    \E i \in Runs :
        /\ Returned(i)
        /\ Response(i).success
        /\ Len(run[i].search_results) = 4
        /\ Response(i).search_results_count = 4
        /\ Len(Response(i).sources) = 3
        /\ run[i].scrape_tasks[1].state = "raised"
        /\ run[i].scrape_tasks[2].state = "returned"
        /\ run[i].scrape_tasks[2].value = None

\* C14: every response enrich_product returns, on the success path and on
\* the failure path, carries as processing_time the time elapsed between
\* the start of the run and the return, which is >= 0 under a clock that
\* never goes back.
C14_ProcessingTimeRecorded ==
    \A i \in Runs :
        /\ run[i].start_time <= now
        /\ Returned(i) =>
              /\ Response(i).processing_time =
                     run[i].returned_at - run[i].start_time
              /\ Response(i).processing_time >= 0

\* A run that started at clock 1 returned a failure response at clock 2
\* with processing_time 1.
C14_Witness ==
    \E i \in Runs :
        /\ Returned(i)
        /\ ~Response(i).success
        /\ run[i].start_time = 1
        /\ run[i].returned_at = 2
        /\ Response(i).processing_time = 1

\* A success response with a positive processing_time.
C14_WitnessSuccess ==
    \E i \in Runs :
        /\ Returned(i)
        /\ Response(i).success
        /\ Response(i).processing_time = MaxClock

\* The ranks of the extractions that returned a present record.
PresentRanks(tasks) ==
    {k \in 1..Len(tasks) :
        tasks[k].state = "returned" /\ tasks[k].value # None}

\* The j-th smallest element of a set of ranks.
NthRank(ranks, j) ==
    CHOOSE k \in ranks : Cardinality({m \in ranks : m <= k}) = j

\* C16: for every order in which the concurrent extractions complete, the
\* content records passed to the synthesizer are exactly the extractions
\* that returned a present record, in the rank order of their hits; an
\* extraction that raised and one that returned absent are both left out.
C16_ContentInRankOrder ==
    \A i \in Runs :
        run[i].pc \in {"synth", "done"} /\ run[i].scrape_tasks # <<>> =>
            LET tasks == run[i].scrape_tasks
                ranks == PresentRanks(tasks)
            IN  /\ Len(run[i].valid_content) = Cardinality(ranks)
                /\ \A j \in 1..Len(run[i].valid_content) :
                       run[i].valid_content[j] = tasks[NthRank(ranks, j)].value[1]

\* Three extractions completed in the order 3, 2, 1: the first and the third
\* returned records of different pages, the second raised; the synthesizer
\* was called with the record of the first hit before that of the third.
C16_Witness ==
    \E i \in Runs :
        /\ run[i].settled = <<3, 2, 1>>
        /\ run[i].scrape_tasks[2].state = "raised"
        /\ run[i].synth_calls = 1
        /\ Len(run[i].valid_content) = 2
        /\ run[i].valid_content[1].url = run[i].search_results[1].url
        /\ run[i].valid_content[2].url = run[i].search_results[3].url
        /\ run[i].valid_content[1].url # run[i].valid_content[2].url

\* As above with the second extraction returning absent.
C16_WitnessAbsent ==
    \E i \in Runs :
        /\ run[i].settled = <<2, 3, 1>>
        /\ run[i].scrape_tasks[2].state = "returned"
        /\ run[i].scrape_tasks[2].value = None
        /\ run[i].synth_calls = 1
        /\ Len(run[i].valid_content) = 2
        /\ run[i].valid_content[1].url # run[i].valid_content[2].url

\* The search call of run i has returned.
Searched(i) == run[i].search_calls = 1 /\ run[i].search_failed # None

\* C13: SearchService.search never raises to its caller: an internal
\* failure of the selected strategy (network error, parse error, missing
\* library, non-200 status) yields an empty list, and a provider name that
\* is not a recognized one is served by the default strategy.
C13_SearchFailsToEmpty ==
    \A i \in Runs :
        Searched(i) =>
            /\ run[i].pc # "search"
            /\ run[i].search_failed = Some(TRUE) => run[i].search_results = <<>>
            /\ SEARCH_PROVIDER = Some("bing") =>
                  \A k \in 1..Len(run[i].search_results) :
                      run[i].search_results[k].source = "google"

\* An unrecognized provider name was served by the default strategy.
C13_FallbackReached ==
    \E i \in Runs :
        /\ SEARCH_PROVIDER = Some("bing")
        /\ Searched(i)
        /\ Len(run[i].search_results) = 2
        /\ run[i].search_results[1].source = "google"

====
